---------------------------- MODULE Spec2Model ----------------------------
(***************************************************************************)
(* A model of src/app.py: the balanced-JSON scanner extract_first_json,    *)
(* the text aggregator collect_all_texts, the standard JSON decoder and    *)
(* encoder the handler calls, and the analysis handler                     *)
(* generate_qualitative_analysis with its primary and repair call.         *)
(*                                                                         *)
(* Texts are sequences of one-character strings.  Python indexes from 0,   *)
(* sequences here from 1: str.find's -1 ("not found") is 0 here.           *)
(***************************************************************************)
EXTENDS Integers, Sequences, FiniteSets, TLC

VARIABLES
    inv,         \* the handler: one invocation (see NewInvocation)
    text,        \* extract_first_json: the argument
    pc,          \* extract_first_json: position in the function
    start,       \* extract_first_json: index of the first '{' (0: none)
    i,           \* extract_first_json: the loop index
    depth,       \* extract_first_json: brace depth
    in_string,   \* extract_first_json: inside a string literal
    escape,      \* extract_first_json: previous character was an escaping '\'
    result,      \* extract_first_json: the value returned
    decoded_part, \* json.loads of the value returned (lines 302-303)
    origin,      \* the value text was serialized from, if it was
    agg,         \* collect_all_texts: one call (see NewCollect)
    invs,        \* concurrent invocations of the handler, one per worker
    session      \* the module-level requests session the invocations share

scanVars == <<text, pc, start, i, depth, in_string, escape, result, decoded_part, origin>>

aggVars == <<agg>>

concVars == <<invs, session>>

vars == <<inv, scanVars, aggVars, concVars>>

-----------------------------------------------------------------------------
(* Characters *)

LBRACE == "{"
RBRACE == "}"
LBRACK == "["
RBRACK == "]"
QUOTE == "\""
BACKSLASH == "\\"
COLON == ":"
COMMA == ","
SPACE == " "
NEWLINE == "\n"
TAB == "\t"
CR == "\r"
FF == "\f"
SLASH == "/"
BACKSPACE == "<BS>"   \* the one character U+0008

\* The characters of the model's texts: the JSON punctuation, the digits,
\* white space and lower-case letters.  No text holds a \u escape.
Digits == <<"0", "1", "2", "3", "4", "5", "6", "7", "8", "9">>
DigitSet == {Digits[k] : k \in 1..10}

\* Length of the texts enumerated exhaustively.
MaxLen == 4

-----------------------------------------------------------------------------
(* extract_first_json *)

\* text.rfind(ch): the greatest index holding ch.
str_find_last(s, ch) ==
    IF \E k \in 1..Len(s) : s[k] = ch
    THEN CHOOSE k \in 1..Len(s) : s[k] = ch /\ \A j \in (k + 1)..Len(s) : s[j] # ch
    ELSE 0

\* text.find(ch): the least index holding ch, 0 when there is none.
str_find(s, ch) ==
    IF \E k \in 1..Len(s) : s[k] = ch
    THEN CHOOSE k \in 1..Len(s) : s[k] = ch /\ \A j \in 1..(k - 1) : s[j] # ch
    ELSE 0

\* The loop's variables before the first iteration.
scan_init == [depth |-> 0, in_string |-> FALSE, escape |-> FALSE, returned |-> FALSE]

\* The loop body without the escape flag: every quote inside a string ends it.
scan_body_no_escape(st, char) ==
    IF st.in_string
    THEN IF char = QUOTE THEN [st EXCEPT !.in_string = FALSE] ELSE st
    ELSE IF char = QUOTE THEN [st EXCEPT !.in_string = TRUE]
         ELSE IF char = LBRACE THEN [st EXCEPT !.depth = @ + 1]
         ELSE IF char = RBRACE
              THEN [st EXCEPT !.depth = @ - 1, !.returned = (st.depth - 1 = 0)]
         ELSE st

\* The loop body counting braces before it looks at in_string.
scan_body_counts_in_strings(st, char) ==
    IF char = LBRACE THEN [st EXCEPT !.depth = @ + 1]
    ELSE IF char = RBRACE
         THEN [st EXCEPT !.depth = @ - 1, !.returned = (st.depth - 1 = 0)]
    ELSE IF st.in_string
         THEN IF st.escape THEN [st EXCEPT !.escape = FALSE]
              ELSE IF char = BACKSLASH THEN [st EXCEPT !.escape = TRUE]
              ELSE IF char = QUOTE THEN [st EXCEPT !.in_string = FALSE]
              ELSE st
    ELSE IF char = QUOTE THEN [st EXCEPT !.in_string = TRUE]
    ELSE st

\* The loop body with an escape flag that is never cleared: after a backslash
\* every later character of the string counts as escaped.
scan_body_escape_sticks(st, char) ==
    IF st.in_string
    THEN IF st.escape THEN st
         ELSE IF char = BACKSLASH THEN [st EXCEPT !.escape = TRUE]
         ELSE IF char = QUOTE THEN [st EXCEPT !.in_string = FALSE]
         ELSE st
    ELSE IF char = QUOTE THEN [st EXCEPT !.in_string = TRUE]
         ELSE IF char = LBRACE THEN [st EXCEPT !.depth = @ + 1]
         ELSE IF char = RBRACE
              THEN [st EXCEPT !.depth = @ - 1, !.returned = (st.depth - 1 = 0)]
         ELSE st

\* The loop body looking for the backslash before it looks at in_string: a
\* backslash outside a string sets the escape flag too.
scan_body_escape_anywhere(st, char) ==
    IF st.escape THEN [st EXCEPT !.escape = FALSE]
    ELSE IF char = BACKSLASH THEN [st EXCEPT !.escape = TRUE]
    ELSE IF st.in_string
         THEN IF char = QUOTE THEN [st EXCEPT !.in_string = FALSE] ELSE st
    ELSE IF char = QUOTE THEN [st EXCEPT !.in_string = TRUE]
         ELSE IF char = LBRACE THEN [st EXCEPT !.depth = @ + 1]
         ELSE IF char = RBRACE
              THEN [st EXCEPT !.depth = @ - 1, !.returned = (st.depth - 1 = 0)]
         ELSE st

\* One iteration of the for loop on character char; returned is set when the
\* iteration executes the return inside the loop.
scan_body(st, char) ==
    IF st.in_string
    THEN IF st.escape THEN [st EXCEPT !.escape = FALSE]
         ELSE IF char = BACKSLASH THEN [st EXCEPT !.escape = TRUE]
         ELSE IF char = QUOTE THEN [st EXCEPT !.in_string = FALSE]
         ELSE st
    ELSE IF char = QUOTE THEN [st EXCEPT !.in_string = TRUE]
         ELSE IF char = LBRACE THEN [st EXCEPT !.depth = @ + 1]
         ELSE IF char = RBRACE
              THEN [st EXCEPT !.depth = @ - 1, !.returned = (st.depth - 1 = 0)]
         ELSE st

\* The for loop from index k on, entered with loop variables st.
RECURSIVE scan_loop(_, _, _, _)
scan_loop(s, first, k, st) ==
    IF k > Len(s) THEN <<>>
    ELSE LET nxt == scan_body(st, s[k])
         IN  IF nxt.returned THEN SubSeq(s, first, k)
             ELSE scan_loop(s, first, k + 1, nxt)

extract_first_json(s) ==
    IF s = <<>> THEN <<>>
    ELSE LET first == str_find(s, LBRACE)
         IN  IF first = 0 THEN <<>> ELSE scan_loop(s, first, first, scan_init)

-----------------------------------------------------------------------------
(* JSON values, as json.loads builds them and json.dumps reads them.  A dict
   is the sequence of its (key, value) pairs in insertion order, keys
   distinct. *)

JNull == [t |-> "null"]
JBool(b) == [t |-> "bool", b |-> b]
JNum(n) == [t |-> "num", n |-> n]
JStr(s) == [t |-> "str", s |-> s]
JArr(a) == [t |-> "arr", a |-> a]
JObj(m) == [t |-> "obj", m |-> m]

\* d[key] = value on the pair sequence m: an existing key keeps its place.
dict_set(m, key, value) ==
    IF \E k \in 1..Len(m) : m[k].k = key
    THEN [k \in 1..Len(m) |-> IF m[k].k = key THEN [k |-> key, v |-> value] ELSE m[k]]
    ELSE Append(m, [k |-> key, v |-> value])

dict_has(m, key) == \E k \in 1..Len(m) : m[k].k = key

dict_at(m, key) == m[CHOOSE k \in 1..Len(m) : m[k].k = key].v

\* Python's == on decoded values: dicts compare as mappings, lists in order.
RECURSIVE value_eq(_, _)
value_eq(v, w) ==
    IF v.t # w.t THEN FALSE
    ELSE CASE v.t = "null" -> TRUE
           [] v.t = "bool" -> v.b = w.b
           [] v.t = "num" -> v.n = w.n
           [] v.t = "str" -> v.s = w.s
           [] v.t = "arr" -> /\ Len(v.a) = Len(w.a)
                             /\ \A k \in 1..Len(v.a) : value_eq(v.a[k], w.a[k])
           [] v.t = "obj" -> /\ Len(v.m) = Len(w.m)
                             /\ \A k \in 1..Len(v.m) :
                                   /\ dict_has(w.m, v.m[k].k)
                                   /\ value_eq(v.m[k].v, dict_at(w.m, v.m[k].k))

-----------------------------------------------------------------------------
(* json.loads: the standard decoder, on texts over the model's characters
   (the JSON punctuation, digits, lower-case letters, space and newline).
   Every failure is a JSONDecodeError: ok = FALSE. *)

DecodeFail == [ok |-> FALSE, val |-> JNull, end |-> 0]
Decoded(v, e) == [ok |-> TRUE, val |-> v, end |-> e]

IsWhitespace(ch) == ch \in {SPACE, NEWLINE, TAB, CR}

\* Characters below U+0020, which strict mode refuses inside a string.
IsControl(ch) == ch \in {NEWLINE, TAB, CR, FF, BACKSPACE}

\* BACKSLASH: the character a one-letter escape stands for.
IsEscapeLetter(ch) == ch \in {QUOTE, BACKSLASH, SLASH, "b", "f", "n", "r", "t"}

escape_value(ch) ==
    CASE ch = "b" -> BACKSPACE
      [] ch = "f" -> FF
      [] ch = "n" -> NEWLINE
      [] ch = "r" -> CR
      [] ch = "t" -> TAB
      [] OTHER -> ch

\* WHITESPACE.match(s, k).end(): the first index at or after k that holds no
\* white space.
RECURSIVE skip_ws(_, _)
skip_ws(s, k) == IF k <= Len(s) /\ IsWhitespace(s[k]) THEN skip_ws(s, k + 1) ELSE k

DigitVal(ch) == (CHOOSE d \in 1..10 : Digits[d] = ch) - 1

RECURSIVE digits_end(_, _)
digits_end(s, k) == IF k <= Len(s) /\ s[k] \in DigitSet THEN digits_end(s, k + 1) ELSE k

RECURSIVE to_int(_)
to_int(ds) == IF ds = <<>> THEN 0
              ELSE 10 * to_int(SubSeq(ds, 1, Len(ds) - 1)) + DigitVal(ds[Len(ds)])

\* NUMBER_RE at index k, which holds a digit: 0, or a run of digits that
\* starts with 1-9.
match_number(s, k) ==
    IF s[k] = "0" THEN Decoded(JNum(0), k + 1)
    ELSE LET e == digits_end(s, k) IN Decoded(JNum(to_int(SubSeq(s, k, e - 1))), e)

\* scanstring from index k, just after the opening quote (strict mode).
RECURSIVE py_scanstring(_, _, _)
py_scanstring(s, k, acc) ==
    IF k > Len(s) THEN DecodeFail                       \* unterminated string
    ELSE IF s[k] = QUOTE THEN Decoded(JStr(acc), k + 1)
    ELSE IF s[k] = BACKSLASH
         THEN IF k + 1 > Len(s) THEN DecodeFail
              ELSE IF IsEscapeLetter(s[k + 1])
                   THEN py_scanstring(s, k + 2, Append(acc, escape_value(s[k + 1])))
              ELSE DecodeFail                           \* invalid \escape
    ELSE IF IsControl(s[k]) THEN DecodeFail
    ELSE py_scanstring(s, k + 1, Append(acc, s[k]))

IsLiteral(s, k, word) ==
    /\ k + Len(word) - 1 <= Len(s)
    /\ SubSeq(s, k, k + Len(word) - 1) = word

RECURSIVE scan_once(_, _)
RECURSIVE JSONObject(_, _, _)
RECURSIVE JSONArray(_, _, _)

\* The members of an object from index k, just after a key's opening quote.
JSONObject(s, k, pairs) ==
    LET key == py_scanstring(s, k, <<>>)
    IN  IF ~key.ok THEN DecodeFail
        ELSE LET c == skip_ws(s, key.end)
             IN  IF c > Len(s) \/ s[c] # COLON THEN DecodeFail
                 ELSE LET v == scan_once(s, skip_ws(s, c + 1))
                      IN  IF ~v.ok THEN DecodeFail
                          ELSE LET e == skip_ws(s, v.end)
                                   np == dict_set(pairs, key.val.s, v.val)
                               IN  IF e > Len(s) THEN DecodeFail
                                   ELSE IF s[e] = RBRACE THEN Decoded(JObj(np), e + 1)
                                   ELSE IF s[e] # COMMA THEN DecodeFail
                                   ELSE LET q == skip_ws(s, e + 1)
                                        IN  IF q > Len(s) \/ s[q] # QUOTE THEN DecodeFail
                                            ELSE JSONObject(s, q + 1, np)

\* The items of an array from index k, where a value must start.
JSONArray(s, k, items) ==
    LET v == scan_once(s, k)
    IN  IF ~v.ok THEN DecodeFail
        ELSE LET e == skip_ws(s, v.end)
                 ni == Append(items, v.val)
             IN  IF e > Len(s) THEN DecodeFail
                 ELSE IF s[e] = RBRACK THEN Decoded(JArr(ni), e + 1)
                 ELSE IF s[e] # COMMA THEN DecodeFail
                 ELSE JSONArray(s, skip_ws(s, e + 1), ni)

\* The value that starts at index k.
scan_once(s, k) ==
    IF k > Len(s) THEN DecodeFail
    ELSE IF s[k] = QUOTE THEN py_scanstring(s, k + 1, <<>>)
    ELSE IF s[k] = LBRACE
         THEN LET q == skip_ws(s, k + 1)
              IN  IF q > Len(s) THEN DecodeFail
                  ELSE IF s[q] = RBRACE THEN Decoded(JObj(<<>>), q + 1)
                  ELSE IF s[q] # QUOTE THEN DecodeFail
                  ELSE JSONObject(s, q + 1, <<>>)
    ELSE IF s[k] = LBRACK
         THEN LET q == skip_ws(s, k + 1)
              IN  IF q <= Len(s) /\ s[q] = RBRACK THEN Decoded(JArr(<<>>), q + 1)
                  ELSE JSONArray(s, q, <<>>)
    ELSE IF IsLiteral(s, k, <<"n", "u", "l", "l">>) THEN Decoded(JNull, k + 4)
    ELSE IF IsLiteral(s, k, <<"t", "r", "u", "e">>) THEN Decoded(JBool(TRUE), k + 4)
    ELSE IF IsLiteral(s, k, <<"f", "a", "l", "s", "e">>) THEN Decoded(JBool(FALSE), k + 5)
    ELSE IF s[k] \in DigitSet THEN match_number(s, k)
    ELSE DecodeFail

\* json.loads(s): one value, white space around it, and nothing else.
json_loads(s) ==
    LET v == scan_once(s, skip_ws(s, 1))
    IN  IF ~v.ok THEN DecodeFail
        ELSE IF skip_ws(s, v.end) # Len(s) + 1 THEN DecodeFail   \* extra data
        ELSE v

-----------------------------------------------------------------------------
(* json.dumps with the default separators *)

\* s[lo..hi] with every character replaced by f's text for it.
RECURSIVE flat_map(_, _, _, _)
flat_map(f(_), s, lo, hi) ==
    IF lo > hi THEN <<>>
    ELSE IF lo = hi THEN f(s[lo])
    ELSE LET mid == (lo + hi) \div 2
         IN  flat_map(f, s, lo, mid) \o flat_map(f, s, mid + 1, hi)

\* ESCAPE / ESCAPE_ASCII on one character.
escape_char(ch) ==
    IF ch = QUOTE THEN <<BACKSLASH, QUOTE>>
    ELSE IF ch = BACKSLASH THEN <<BACKSLASH, BACKSLASH>>
    ELSE IF ch = NEWLINE THEN <<BACKSLASH, "n">>
    ELSE IF ch = CR THEN <<BACKSLASH, "r">>
    ELSE IF ch = TAB THEN <<BACKSLASH, "t">>
    ELSE IF ch = FF THEN <<BACKSLASH, "f">>
    ELSE IF ch = BACKSPACE THEN <<BACKSLASH, "b">>
    ELSE <<ch>>

encode_basestring(s) == <<QUOTE>> \o flat_map(escape_char, s, 1, Len(s)) \o <<QUOTE>>

RECURSIVE int_repr(_)
int_repr(n) == IF n < 10 THEN <<Digits[n + 1]>>
               ELSE int_repr(n \div 10) \o <<Digits[(n % 10) + 1]>>

\* parts joined by sep.
RECURSIVE str_join(_, _)
str_join(sep, parts) ==
    IF parts = <<>> THEN <<>>
    ELSE IF Len(parts) = 1 THEN parts[1]
    ELSE parts[1] \o sep \o str_join(sep, Tail(parts))

RECURSIVE json_dumps(_)
json_dumps(v) ==
    CASE v.t = "null" -> <<"n", "u", "l", "l">>
      [] v.t = "bool" -> IF v.b THEN <<"t", "r", "u", "e">> ELSE <<"f", "a", "l", "s", "e">>
      [] v.t = "num" -> int_repr(v.n)
      [] v.t = "str" -> encode_basestring(v.s)
      [] v.t = "arr" ->
            <<LBRACK>> \o str_join(<<COMMA, SPACE>>,
                                   [k \in 1..Len(v.a) |-> json_dumps(v.a[k])]) \o <<RBRACK>>
      [] v.t = "obj" ->
            <<LBRACE>> \o str_join(<<COMMA, SPACE>>,
                                   [k \in 1..Len(v.m) |->
                                       encode_basestring(v.m[k].k) \o <<COLON, SPACE>>
                                           \o json_dumps(v.m[k].v)]) \o <<RBRACE>>

-----------------------------------------------------------------------------
(* Python values: truth, .get, iteration, str.strip, str.join *)

\* bool(v).
truthy(v) ==
    CASE v.t = "null" -> FALSE
      [] v.t = "bool" -> v.b
      [] v.t = "num" -> v.n # 0
      [] v.t = "str" -> v.s # <<>>
      [] v.t = "arr" -> v.a # <<>>
      [] v.t = "obj" -> v.m # <<>>

\* v.get(key, default), for a dict v.
py_get(v, key, default) == IF dict_has(v.m, key) THEN dict_at(v.m, key) ELSE default

\* Only a dict has .get: on anything else the attribute lookup raises.
has_get(v) == v.t = "obj"

\* for x in v: a list gives its items, a str its characters, a dict its
\* keys; None, a bool and a number are not iterable.
is_iterable(v) == v.t \in {"arr", "str", "obj"}

py_iter(v) ==
    CASE v.t = "arr" -> v.a
      [] v.t = "str" -> [k \in 1..Len(v.s) |-> JStr(<<v.s[k]>>)]
      [] v.t = "obj" -> [k \in 1..Len(v.m) |-> JStr(v.m[k].k)]

\* str.isspace on one character.
IsPySpace(ch) == ch \in {SPACE, NEWLINE, TAB, CR, FF}

\* s.strip().
str_strip(s) ==
    IF \A k \in 1..Len(s) : IsPySpace(s[k]) THEN <<>>
    ELSE LET lo == CHOOSE k \in 1..Len(s) :
                       ~IsPySpace(s[k]) /\ \A j \in 1..(k - 1) : IsPySpace(s[j])
             hi == CHOOSE k \in 1..Len(s) :
                       ~IsPySpace(s[k]) /\ \A j \in (k + 1)..Len(s) : IsPySpace(s[j])
         IN  SubSeq(s, lo, hi)

\* s[:n].
str_prefix(s, n) == IF Len(s) <= n THEN s ELSE SubSeq(s, 1, n)

-----------------------------------------------------------------------------
(* collect_all_texts *)

KEY_CANDIDATES == <<"c", "a", "n", "d", "i", "d", "a", "t", "e", "s">>
KEY_CONTENT == <<"c", "o", "n", "t", "e", "n", "t">>
KEY_PARTS == <<"p", "a", "r", "t", "s">>
KEY_TEXT == <<"t", "e", "x", "t">>

Returned(v) == [raised |-> "", value |-> v]
Raised(exc) == [raised |-> exc, value |-> <<>>]

\* The inner loop appending each kept fragment stripped of its own leading and
\* trailing white space.
RECURSIVE collect_parts_stripped(_, _, _)
collect_parts_stripped(parts, k, texts) ==
    IF k > Len(parts) THEN [raised |-> "", texts |-> texts]
    ELSE LET p == parts[k]
         IN  IF ~has_get(p) THEN [raised |-> "AttributeError", texts |-> texts]
             ELSE LET got == py_get(p, KEY_TEXT, JNull)
                  IN  IF got.t = "str" /\ str_strip(got.s) # <<>>
                      THEN collect_parts_stripped(parts, k + 1,
                                                  Append(texts, str_strip(got.s)))
                      ELSE collect_parts_stripped(parts, k + 1, texts)

\* The inner loop over one candidate's parts, from part k on: texts with the
\* kept fragments appended, or the exception of the first part without .get.
RECURSIVE collect_parts(_, _, _)
collect_parts(parts, k, texts) ==
    IF k > Len(parts) THEN [raised |-> "", texts |-> texts]
    ELSE LET p == parts[k]
         IN  IF ~has_get(p) THEN [raised |-> "AttributeError", texts |-> texts]
             ELSE LET got == py_get(p, KEY_TEXT, JNull)
                  IN  IF got.t = "str" /\ str_strip(got.s) # <<>>
                      THEN collect_parts(parts, k + 1, Append(texts, got.s))
                      ELSE collect_parts(parts, k + 1, texts)

\* The outer loop over the candidates, from candidate k on.
RECURSIVE collect_candidates(_, _, _)
collect_candidates(candidates, k, texts) ==
    IF k > Len(candidates) THEN [raised |-> "", texts |-> texts]
    ELSE LET cand == candidates[k]
         IN  IF ~has_get(cand) THEN [raised |-> "AttributeError", texts |-> texts]
             ELSE LET content == py_get(cand, KEY_CONTENT, JObj(<<>>))
                  IN  IF ~has_get(content)
                      THEN [raised |-> "AttributeError", texts |-> texts]
                      ELSE LET got == py_get(content, KEY_PARTS, JArr(<<>>))
                               parts == IF truthy(got) THEN got ELSE JArr(<<>>)
                           IN  IF ~is_iterable(parts)
                               THEN [raised |-> "TypeError", texts |-> texts]
                               ELSE LET inner == collect_parts(py_iter(parts), 1, texts)
                                    IN  IF inner.raised # "" THEN inner
                                        ELSE collect_candidates(candidates, k + 1,
                                                                inner.texts)

collect_all_texts(gemini_obj) ==
    IF ~has_get(gemini_obj) THEN Raised("AttributeError")
    ELSE LET got == py_get(gemini_obj, KEY_CANDIDATES, JArr(<<>>))
             candidates == IF truthy(got) THEN got ELSE JArr(<<>>)
         IN  IF ~is_iterable(candidates) THEN Raised("TypeError")
             ELSE LET all == collect_candidates(py_iter(candidates), 1, <<>>)
                  IN  IF all.raised # "" THEN Raised(all.raised)
                      ELSE Returned(str_strip(str_join(<<NEWLINE>>, all.texts)))

-----------------------------------------------------------------------------
(* generate_qualitative_analysis: one invocation of the handler.

   An invocation is a record: its position pc, its local variables, the
   prompts it has sent (one per call_gemini), the operations it has run
   (trace), the log records it has written, and the response it returns. *)

KEY_NAME == <<"n", "a", "m", "e">>
KEY_BIZAREA == <<"b", "i", "z", "A", "r", "e", "a">>
KEY_DARTDATA == <<"d", "a", "r", "t", "D", "a", "t", "a">>

\* The schema text the handler embeds in both prompts.
SCHEMA == "schema"

\* text_content[:500] in the two parse-failure log records.
LOG_TEXT_LIMIT == 500
\* json.dumps(api_result_obj)[:1500] in the two final-failure log records.
LOG_RAW_LIMIT == 1500

NoOutcome ==
    [kind |-> "none", http |-> 0, error |-> "", status |-> 0,
     upstream |-> <<>>, value |-> JNull, detail |-> ""]

\* jsonify(value): the decoded object, status 200.
Success(value) ==
    [NoOutcome EXCEPT !.kind = "Success", !.http = 200, !.value = value]

\* Lines 291-293 and 322-324: the generator answered with an error status.
UpstreamStatusError(error, response_status, response_text) ==
    [NoOutcome EXCEPT !.kind = "UpstreamTransportError", !.http = 502,
                      !.error = error, !.status = response_status,
                      !.upstream = response_text]

\* Line 344: requests raised.
UpstreamRequestError(exc) ==
    [NoOutcome EXCEPT !.kind = "UpstreamTransportError", !.http = 502,
                      !.error = "Gemini API request failed", !.detail = exc]

\* Line 340.
TerminalFailure ==
    [NoOutcome EXCEPT !.kind = "TerminalFailure", !.http = 500,
                      !.error = "final failure: no valid JSON in the response"]

\* Line 347.
InternalError(exc) ==
    [NoOutcome EXCEPT !.kind = "InternalError", !.http = 500,
                      !.error = "server error while generating analysis",
                      !.detail = exc]

\* Line 233.
BadRequest ==
    [NoOutcome EXCEPT !.kind = "BadRequest", !.http = 400,
                      !.error = "company name required"]

\* An exception outside the try block: the framework answers 500.
Unhandled(exc) ==
    [NoOutcome EXCEPT !.kind = "Unhandled", !.http = 500, !.detail = exc]

LogRecord(level, what, data) == [level |-> level, what |-> what, data |-> data]

\* Lines 274-285: the primary prompt.
build_prompt(company_name, biz_area, dart_data_str, schema) ==
    [template |-> "primary", company_name |-> company_name, biz_area |-> biz_area,
     embedded |-> dart_data_str, schema |-> schema]

\* The repair prompt embeds the text as the log does, cut to 500 characters.
build_repair_prompt_cut(text_content, schema) ==
    [template |-> "repair", company_name |-> <<>>, biz_area |-> <<>>,
     embedded |-> str_prefix(text_content, LOG_TEXT_LIMIT), schema |-> schema]

\* Lines 309-318: the repair prompt.
build_repair_prompt(text_content, schema) ==
    [template |-> "repair", company_name |-> <<>>, biz_area |-> <<>>,
     embedded |-> text_content, schema |-> schema]

NoResponse == [exc |-> "", status_code |-> 0, body |-> JNull, json_exc |-> ""]

\* A new invocation, on the JSON body of the request (None: JNull).
NewInvocation(request_json) ==
    [pc |-> "begin",
     request_json |-> request_json,
     prompt |-> build_prompt(<<>>, <<>>, <<>>, ""),
     repair_prompt |-> build_repair_prompt(<<>>, ""),
     response |-> NoResponse,
     response2 |-> NoResponse,
     api_result_obj |-> JNull,
     text_content |-> <<>>,
     api_result_obj2 |-> JNull,
     text_content2 |-> <<>>,
     sent |-> <<>>,
     trace |-> <<>>,
     log |-> <<>>,
     outcome |-> NoOutcome]

Return(r, outcome) == [r EXCEPT !.pc = "done", !.outcome = outcome]

\* (body.get(key) or '').strip(): the text, or the exception raised.
stripped_field(body, key) ==
    IF ~has_get(body) THEN Raised("AttributeError")
    ELSE LET got == py_get(body, key, JNull)
             val == IF truthy(got) THEN got ELSE JStr(<<>>)
         IN  IF val.t # "str" THEN Raised("AttributeError")
             ELSE Returned(str_strip(val.s))

\* Lines 227-285: read the request, refuse one without a company name, build
\* the prompt.  The requests of the model carry no dartData.
handler_begin(r) ==
    LET body == IF truthy(r.request_json) THEN r.request_json ELSE JObj(<<>>)
        company_name == stripped_field(body, KEY_NAME)
        biz_area == stripped_field(body, KEY_BIZAREA)
    IN  IF company_name.raised # "" THEN Return(r, Unhandled(company_name.raised))
        ELSE IF biz_area.raised # "" THEN Return(r, Unhandled(biz_area.raised))
        ELSE IF company_name.value = <<>> THEN Return(r, BadRequest)
        ELSE [r EXCEPT !.pc = "primary_call",
                       !.prompt = build_prompt(
                           company_name.value, biz_area.value,
                           json_dumps(py_get(body, KEY_DARTDATA, JObj(<<>>))), SCHEMA)]

\* The except clauses of lines 342-347, on an exception raised while a
\* response is processed.
handler_except(r, exc) ==
    IF exc = "RequestException"
    THEN Return([r EXCEPT !.log = Append(@, LogRecord("exception", "network error", <<>>))],
                UpstreamRequestError(exc))
    ELSE Return([r EXCEPT !.log = Append(@, LogRecord("exception", "internal error", <<>>))],
                InternalError(exc))

\* The text of a response: its JSON body serialized, or text that is no JSON.
response_text(response) ==
    IF response.json_exc # "" THEN <<"o", "o", "p", "s">> ELSE json_dumps(response.body)

\* Lines 290 and 321: response.status_code >= 400.
is_error_status_strict(status_code) == status_code > 400

is_error_status(status_code) == status_code >= 400

\* call_gemini(prompt): the prompt goes out, a response (or an exception)
\* comes back.
call_gemini(r, prompt) ==
    [r EXCEPT !.sent = Append(@, prompt), !.trace = Append(@, "call_gemini")]

\* Lines 289-293: the primary call and its status check.
handler_primary_call(r, response) ==
    LET called == [call_gemini(r, r.prompt) EXCEPT !.response = response]
    IN  IF response.exc # "" THEN handler_except(called, response.exc)
        ELSE IF is_error_status(response.status_code)
        THEN Return(called, UpstreamStatusError("Gemini API error", response.status_code,
                                               response_text(response)))
        ELSE [called EXCEPT !.pc = "primary_body"]

\* The repair call without a status check of its own.
handler_repair_call_unchecked(r, response2) ==
    LET called == [call_gemini(r, r.repair_prompt) EXCEPT !.response2 = response2]
    IN  IF response2.exc # "" THEN handler_except(called, response2.exc)
        ELSE [called EXCEPT !.pc = "repair_body"]

\* Lines 320-324: the repair call and its status check.
handler_repair_call(r, response2) ==
    LET called == [call_gemini(r, r.repair_prompt) EXCEPT !.response2 = response2]
    IN  IF response2.exc # "" THEN handler_except(called, response2.exc)
        ELSE IF is_error_status(response2.status_code)
        THEN Return(called, UpstreamStatusError("Gemini API error (repair attempt)",
                                               response2.status_code,
                                               response_text(response2)))
        ELSE [called EXCEPT !.pc = "repair_body"]

\* The decoder is given the whole text instead of the extracted span.
try_parse_whole_text(text_content, level, what) ==
    IF text_content = <<>>
    THEN [returned |-> FALSE, value |-> JNull, trace |-> <<>>, log |-> <<>>]
    ELSE LET decoded == json_loads(text_content)
         IN  IF decoded.ok
             THEN [returned |-> TRUE, value |-> decoded.val,
                   trace |-> <<"json.loads">>, log |-> <<>>]
             ELSE [returned |-> FALSE, value |-> JNull, trace |-> <<"json.loads">>,
                   log |-> <<LogRecord(level, what,
                                       str_prefix(text_content, LOG_TEXT_LIMIT))>>]

\* Lines 299-305 and 329-335: the guarded extraction and decoding of one
\* attempt's text.  value is set when the handler returns the decoded object;
\* otherwise control falls through, after the decode error was logged.
try_parse(text_content, level, what) ==
    IF text_content = <<>>
    THEN [returned |-> FALSE, value |-> JNull, trace |-> <<>>, log |-> <<>>]
    ELSE LET json_part == extract_first_json(text_content)
         IN  IF json_part = <<>>
             THEN [returned |-> FALSE, value |-> JNull,
                   trace |-> <<"extract_first_json">>, log |-> <<>>]
             ELSE LET decoded == json_loads(json_part)
                  IN  IF decoded.ok
                      THEN [returned |-> TRUE, value |-> decoded.val,
                            trace |-> <<"extract_first_json", "json.loads">>,
                            log |-> <<>>]
                      ELSE [returned |-> FALSE, value |-> JNull,
                            trace |-> <<"extract_first_json", "json.loads">>,
                            log |-> <<LogRecord(level, what,
                                                str_prefix(text_content, LOG_TEXT_LIMIT))>>]

\* The primary body taking a response object of the wrong shape for a
\* response without text: it goes on to the repair call.
handler_primary_shape_tolerant(r) ==
    IF r.response.json_exc # ""
    THEN handler_except([r EXCEPT !.trace = Append(@, "response.json")],
                        r.response.json_exc)
    ELSE LET api_result_obj == r.response.body
             collected == collect_all_texts(api_result_obj)
             r1 == [r EXCEPT !.api_result_obj = api_result_obj,
                             !.trace = @ \o <<"response.json", "collect_all_texts">>]
             text_content == collected.value
             attempt == try_parse(text_content, "warning", "primary response is not JSON")
             r2 == [r1 EXCEPT !.text_content = text_content,
                              !.trace = @ \o attempt.trace,
                              !.log = @ \o attempt.log]
         IN  IF attempt.returned THEN Return(r2, Success(attempt.value))
             ELSE [r2 EXCEPT !.pc = "repair_call",
                             !.log = Append(@, LogRecord("info",
                                                "trying the repair call", <<>>)),
                             !.repair_prompt = build_repair_prompt(text_content, SCHEMA)]

\* The primary body without the inner except clause: a span that does not
\* decode raises out of the parse attempt to the handler's outer clauses.
handler_primary_decode_raises(r) ==
    IF r.response.json_exc # ""
    THEN handler_except([r EXCEPT !.trace = Append(@, "response.json")],
                        r.response.json_exc)
    ELSE LET api_result_obj == r.response.body
             collected == collect_all_texts(api_result_obj)
             r1 == [r EXCEPT !.api_result_obj = api_result_obj,
                             !.trace = @ \o <<"response.json", "collect_all_texts">>]
         IN  IF collected.raised # "" THEN handler_except(r1, collected.raised)
             ELSE LET text_content == collected.value
                      attempt == try_parse(text_content, "warning",
                                           "primary response is not JSON")
                      r2 == [r1 EXCEPT !.text_content = text_content,
                                       !.trace = @ \o attempt.trace]
                  IN  IF attempt.returned THEN Return(r2, Success(attempt.value))
                      ELSE IF attempt.log # <<>> THEN handler_except(r2, "JSONDecodeError")
                      ELSE [r2 EXCEPT !.pc = "repair_call",
                                      !.log = Append(@, LogRecord("info",
                                                         "trying the repair call", <<>>)),
                                      !.repair_prompt = build_repair_prompt(text_content, SCHEMA)]

\* Lines 295-318: the primary response's body.
handler_primary(r) ==
    IF r.response.json_exc # ""
    THEN handler_except([r EXCEPT !.trace = Append(@, "response.json")],
                        r.response.json_exc)
    ELSE LET api_result_obj == r.response.body
             collected == collect_all_texts(api_result_obj)
             r1 == [r EXCEPT !.api_result_obj = api_result_obj,
                             !.trace = @ \o <<"response.json", "collect_all_texts">>]
         IN  IF collected.raised # "" THEN handler_except(r1, collected.raised)
             ELSE LET text_content == collected.value
                      parsed == try_parse(text_content, "warning",
                                          "primary response is not JSON")
                      r2 == [r1 EXCEPT !.text_content = text_content,
                                       !.trace = @ \o parsed.trace,
                                       !.log = @ \o parsed.log]
                  IN  IF parsed.returned THEN Return(r2, Success(parsed.value))
                      ELSE [r2 EXCEPT !.pc = "repair_call",
                                      !.log = Append(@, LogRecord("info",
                                                         "trying the repair call", <<>>)),
                                      !.repair_prompt = build_repair_prompt(text_content, SCHEMA)]

\* The repair attempt failed too, and the handler asks the generator again.
final_failure_retries(r, api_result_obj2) ==
    [r EXCEPT !.pc = "repair_call"]

\* The second log line repeats the first one's object.
final_failure_logs_primary_twice(r, api_result_obj2) ==
    Return([r EXCEPT !.log = @ \o
               <<LogRecord("error", "raw primary response",
                           str_prefix(json_dumps(r.api_result_obj), LOG_RAW_LIMIT)),
                 LogRecord("error", "raw repair response",
                           str_prefix(json_dumps(r.api_result_obj), LOG_RAW_LIMIT))>>],
           TerminalFailure)

\* Lines 337-340: both attempts failed; both raw responses are logged, cut to
\* LOG_RAW_LIMIT characters, and the generic failure is returned.
final_failure(r, api_result_obj2) ==
    Return([r EXCEPT !.log = @ \o
               <<LogRecord("error", "raw primary response",
                           str_prefix(json_dumps(r.api_result_obj), LOG_RAW_LIMIT)),
                 LogRecord("error", "raw repair response",
                           str_prefix(json_dumps(api_result_obj2), LOG_RAW_LIMIT))>>],
           TerminalFailure)

\* The repair body parsing the primary text and the repair text joined.
handler_repair_merged(r) ==
    IF r.response2.json_exc # ""
    THEN handler_except([r EXCEPT !.trace = Append(@, "response.json")],
                        r.response2.json_exc)
    ELSE LET api_result_obj2 == r.response2.body
             collected == collect_all_texts(api_result_obj2)
             r1 == [r EXCEPT !.api_result_obj2 = api_result_obj2,
                             !.trace = @ \o <<"response.json", "collect_all_texts">>]
         IN  IF collected.raised # "" THEN handler_except(r1, collected.raised)
             ELSE LET text_content2 == collected.value
                      attempt == try_parse(r.text_content \o <<NEWLINE>> \o text_content2,
                                           "error", "repair response is not JSON")
                      r2 == [r1 EXCEPT !.text_content2 = text_content2,
                                       !.trace = @ \o attempt.trace,
                                       !.log = @ \o attempt.log]
                  IN  IF attempt.returned THEN Return(r2, Success(attempt.value))
                      ELSE final_failure(r2, api_result_obj2)

\* Lines 326-336: the repair response's body.
handler_repair(r) ==
    IF r.response2.json_exc # ""
    THEN handler_except([r EXCEPT !.trace = Append(@, "response.json")],
                        r.response2.json_exc)
    ELSE LET api_result_obj2 == r.response2.body
             collected == collect_all_texts(api_result_obj2)
             r1 == [r EXCEPT !.api_result_obj2 = api_result_obj2,
                             !.trace = @ \o <<"response.json", "collect_all_texts">>]
         IN  IF collected.raised # "" THEN handler_except(r1, collected.raised)
             ELSE LET text_content2 == collected.value
                      parsed == try_parse(text_content2, "error",
                                          "repair response is not JSON")
                      r2 == [r1 EXCEPT !.text_content2 = text_content2,
                                       !.trace = @ \o parsed.trace,
                                       !.log = @ \o parsed.log]
                  IN  IF parsed.returned THEN Return(r2, Success(parsed.value))
                      ELSE final_failure(r2, api_result_obj2)

-----------------------------------------------------------------------------
(* The handler's environment: the requests it is called with and the
   responses the generator gives *)

\* Parts per candidate in the enumerated generator responses.
MaxParts == 2

T_PROSE == <<"n", "o", " ", "j", "s", "o", "n", " ", "h", "e", "r", "e">>
T_WRAPPED == <<"o", "k", " ", "{", "\"", "x", "\"", ":", "1", "}", " ", "o", "k">>
T_OBJECT == <<"{", "\"", "x", "\"", ":", "2", "}">>
T_TRUNCATED == <<"{", "\"", "a", "\"", ":", " ", "1", ",", " ", "\"", "b", "\"", ":", " ", "{">>
T_NOTJSON == <<"{", "x", "}">>
T_BLANK == <<SPACE>>
\* The braces that T_TRUNCATED lacks.
T_CLOSERS == <<"}", "}">>
\* A span that does not decode, then more text than either log limit keeps.
T_LONG == T_NOTJSON \o [k \in 1..LOG_RAW_LIMIT |-> "a"]

PartTexts == {T_PROSE, T_WRAPPED, T_TRUNCATED, T_BLANK}

Member(key, value) == [k |-> key, v |-> value]

\* The generateContent response with one candidate whose parts hold texts.
TextResponse(texts) ==
    JObj(<<Member(KEY_CANDIDATES, JArr(<<
        JObj(<<Member(KEY_CONTENT,
            JObj(<<Member(KEY_PARTS,
                JArr([k \in 1..Len(texts) |->
                        JObj(<<Member(KEY_TEXT, JStr(texts[k]))>>)]))>>))>>)>>))>>)

GeneratorBodies ==
    {TextResponse(ts) : ts \in UNION {[1..n -> PartTexts] : n \in 0..MaxParts}}
    \cup {TextResponse(<<T_OBJECT>>), TextResponse(<<T_NOTJSON>>), TextResponse(<<T_LONG>>),
          TextResponse(<<T_CLOSERS>>)}
    \cup {JObj(<<>>),                                             \* no candidates
          JObj(<<Member(KEY_CANDIDATES,
                        JArr(<<JObj(<<Member(KEY_CONTENT, JNull)>>)>>))>>),  \* content: null
          JArr(<<>>)}                                             \* not a dict

ERROR_BODY == JObj(<<Member(<<"e", "r", "r", "o", "r">>, JStr(<<"q", "u", "o", "t", "a">>))>>)

HttpResponse(status_code, body) ==
    [exc |-> "", status_code |-> status_code, body |-> body, json_exc |-> ""]

\* A response whose text is no JSON: response.json() raises, a
\* RequestException in requests 2.27 and later, a plain ValueError before.
NotJsonResponse(status_code, json_exc) ==
    [exc |-> "", status_code |-> status_code, body |-> JNull, json_exc |-> json_exc]

\* session.post raised (connection error, timeout).
FailedRequest == [exc |-> "RequestException", status_code |-> 0, body |-> JNull, json_exc |-> ""]

Responses ==
    {FailedRequest}
    \cup {HttpResponse(status_code, ERROR_BODY) : status_code \in {400, 503}}
    \cup {HttpResponse(200, body) : body \in GeneratorBodies}
    \cup {NotJsonResponse(status_code, exc) :
              status_code \in {200, 304}, exc \in {"RequestException", "ValueError"}}

\* request.get_json(silent=True): None, or the JSON body.
Requests ==
    {JNull,
     JObj(<<>>),
     JObj(<<Member(KEY_NAME, JStr(<<SPACE>>))>>),
     JObj(<<Member(KEY_NAME, JStr(<<"a", "b", SPACE>>))>>),
     JObj(<<Member(KEY_NAME, JStr(<<"a", "b">>)), Member(KEY_BIZAREA, JStr(<<"i", "t">>))>>),
     JObj(<<Member(KEY_NAME, JNum(7))>>),
     JArr(<<JNum(1)>>)}

NotParsed == [ok |-> FALSE, val |-> JNull]
NoOrigin == [given |-> FALSE, value |-> JNull]

\* collect_all_texts is not running.
AggIdle == agg = [pc |-> "idle", gemini_obj |-> JNull, raised |-> "", value |-> <<>>]

\* No concurrent invocation is running; the session has sent nothing.
ConcIdle ==
    /\ invs = <<>>
    /\ session = [posts |-> 0]

ScanIdle ==
    /\ text = <<>>
    /\ pc = "idle"
    /\ start = 0
    /\ i = 0
    /\ depth = 0
    /\ in_string = FALSE
    /\ escape = FALSE
    /\ result = <<>>
    /\ decoded_part = NotParsed
    /\ origin = NoOrigin

Init ==
    /\ inv \in {NewInvocation(q) : q \in Requests}
    /\ ScanIdle
    /\ AggIdle
    /\ ConcIdle

Begin ==
    /\ inv.pc = "begin"
    /\ inv' = handler_begin(inv)
    /\ UNCHANGED <<scanVars, aggVars, concVars>>

PrimaryCall ==
    /\ inv.pc = "primary_call"
    /\ \E response \in Responses : inv' = handler_primary_call(inv, response)
    /\ UNCHANGED <<scanVars, aggVars, concVars>>

PrimaryBody ==
    /\ inv.pc = "primary_body"
    /\ inv' = handler_primary(inv)
    /\ UNCHANGED <<scanVars, aggVars, concVars>>

RepairCall ==
    /\ inv.pc = "repair_call"
    /\ \E response2 \in Responses : inv' = handler_repair_call(inv, response2)
    /\ UNCHANGED <<scanVars, aggVars, concVars>>

RepairBody ==
    /\ inv.pc = "repair_body"
    /\ inv' = handler_repair(inv)
    /\ UNCHANGED <<scanVars, aggVars, concVars>>

Next == Begin \/ PrimaryCall \/ PrimaryBody \/ RepairCall \/ RepairBody

Spec == Init /\ [][Next]_vars

-----------------------------------------------------------------------------
(* The scanner run step by step on bounded sets of texts: every short text
   over the characters the scanner tells apart, objects in prose, and the
   serializations of a bounded set of values *)

\* The alphabet of the exhaustively enumerated texts.
ScanAlphabet == {LBRACE, RBRACE, QUOTE, BACKSLASH, COLON, "a"}

ShortTexts == UNION {[1..n -> ScanAlphabet] : n \in 0..MaxLen}

X_BRACES_IN_STRING == <<"{", "\"", "a", "\"", ":", " ", "\"", "{", "n", "o", "t", " ", "j", "s", "o", "n", "}", "\"", "}">>
X_ESCAPED_QUOTE == <<"{", "\"", "a", "\"", ":", " ", "\"", "x", "\\", "\"", "y", "\"", "}">>
X_TRUNCATED == <<"{", "\"", "a", "\"", ":", " ", "1", ",", " ", "\"", "b", "\"", ":", " ", "{">>
X_SMALL == <<"{", "\"", "x", "\"", ":", "1", "}">>
X_NESTED == <<"{", "\"", "a", "\"", ":", " ", "1", ",", " ", "\"", "b", "\"", ":", " ", "{", "\"", "c", "\"", ":", " ", "[", "{", "}", "]", "}", "}">>
X_UNBALANCED_IN_STRING == <<"{", "\"", "k", "\"", ":", " ", "\"", "}", "{", "{", "\"", "}">>
X_UNTERMINATED_STRING == <<"{", "\"", "a", "\"", ":", " ", "\"", "x", "}">>

ProsePrefixes == {<<>>, <<"S", "u", "r", "e", ":", " ">>, <<"s", "a", "y", " ", "\"", "{", "\"", " ">>, <<"{", "}", " ">>, <<"}", " ">>}
ProseSuffixes == {<<>>, <<" ", "o", "k", ".">>, <<" ", "{", "\"", "x", "\"", ":", "2", "}">>, <<" ", "}">>}
ProseObjects ==
    {X_BRACES_IN_STRING, X_ESCAPED_QUOTE, X_TRUNCATED, X_SMALL, X_NESTED,
     X_UNBALANCED_IN_STRING, X_UNTERMINATED_STRING}

ProseTexts ==
    {prefix \o object \o suffix :
         prefix \in ProsePrefixes, object \in ProseObjects, suffix \in ProseSuffixes}

ScanTexts == ShortTexts \cup ProseTexts

\* Items per list and members per dict in the serialized values.
MaxItems == 1

StringAtoms ==
    {<<>>, <<"a">>, <<LBRACE>>, <<RBRACE>>, <<QUOTE>>, <<BACKSLASH>>, <<NEWLINE>>,
     <<LBRACE, RBRACE>>, <<RBRACE, LBRACE>>, <<BACKSLASH, QUOTE>>}

Atoms == {JNull, JBool(TRUE), JNum(0), JNum(12)} \cup {JStr(str) : str \in StringAtoms}

SmallAtoms == {JNum(1), JStr(<<RBRACE>>), JStr(<<QUOTE>>)}

Keys == {<<"a">>, <<RBRACE>>, <<QUOTE, LBRACE>>}

\* The lists of at most n items out of S.
ListsOf(S, n) == {JArr(items) : items \in UNION {[1..k -> S] : k \in 0..n}}

\* The dicts of at most n members with values out of S.
DictsOf(S, n) ==
    {JObj([j \in 1..k |-> Member(ks[j], vs[j])]) :
         <<k, ks, vs>> \in UNION {{k} \X {f \in [1..k -> Keys] :
                                              \A x, y \in 1..k : x # y => f[x] # f[y]}
                                      \X [1..k -> S] : k \in 0..n}}

Containers == ListsOf(SmallAtoms, MaxItems) \cup DictsOf(SmallAtoms, MaxItems)

Values ==
    Atoms \cup ListsOf(Atoms, MaxItems) \cup DictsOf(Atoms, MaxItems)
          \cup ListsOf(Containers, 1) \cup DictsOf(Containers, 1)

ScanStart ==
    /\ inv = NewInvocation(JNull)
    /\ AggIdle
    /\ ConcIdle
    /\ pc = "begin"
    /\ start = 0
    /\ i = 0
    /\ depth = 0
    /\ in_string = FALSE
    /\ escape = FALSE
    /\ result = <<>>
    /\ decoded_part = NotParsed

ScanInit ==
    /\ ScanStart
    /\ \/ /\ text \in ScanTexts
          /\ origin = NoOrigin
       \/ \E v \in Values :
             /\ text = json_dumps(v)
             /\ origin = [given |-> TRUE, value |-> v]

\* Lines 164-167 returning the text itself where the code returns ''.
ScanBegin_returns_text ==
    /\ pc = "begin"
    /\ IF text = <<>> \/ str_find(text, LBRACE) = 0
       THEN /\ pc' = "done"
            /\ result' = text
            /\ UNCHANGED <<start, i>>
       ELSE /\ pc' = "loop"
            /\ start' = str_find(text, LBRACE)
            /\ i' = str_find(text, LBRACE)
            /\ result' = result
    /\ depth' = scan_init.depth
    /\ in_string' = scan_init.in_string
    /\ escape' = scan_init.escape
    /\ UNCHANGED <<inv, aggVars, concVars, text, decoded_part, origin>>

\* Lines 164-167: the empty text and the text without '{' return ''.
ScanBegin ==
    /\ pc = "begin"
    /\ IF text = <<>> \/ str_find(text, LBRACE) = 0
       THEN /\ pc' = "done"
            /\ UNCHANGED <<start, i>>
       ELSE /\ pc' = "loop"
            /\ start' = str_find(text, LBRACE)
            /\ i' = str_find(text, LBRACE)
    /\ depth' = scan_init.depth
    /\ in_string' = scan_init.in_string
    /\ escape' = scan_init.escape
    /\ UNCHANGED <<inv, aggVars, concVars, text, result, decoded_part, origin>>

\* Lines 168-179: one iteration of the loop.
ScanIter ==
    /\ pc = "loop"
    /\ i <= Len(text)
    /\ LET nxt == scan_body([depth |-> depth, in_string |-> in_string,
                             escape |-> escape, returned |-> FALSE], text[i])
       IN  /\ depth' = nxt.depth
           /\ in_string' = nxt.in_string
           /\ escape' = nxt.escape
           /\ IF nxt.returned
              THEN /\ result' = SubSeq(text, start, i)
                   /\ pc' = "done"
                   /\ i' = i
              ELSE /\ result' = result
                   /\ pc' = "loop"
                   /\ i' = i + 1
    /\ UNCHANGED <<inv, aggVars, concVars, text, start, decoded_part, origin>>

\* The loop ran off the end of the text, and what was scanned is returned.
ScanExhausted_partial ==
    /\ pc = "loop"
    /\ i > Len(text)
    /\ pc' = "done"
    /\ result' = SubSeq(text, start, Len(text))
    /\ UNCHANGED <<inv, aggVars, concVars, text, start, i, depth, in_string, escape, decoded_part, origin>>

\* The loop ran off the end of the text, and the scan starts again at the
\* next '{' after the one it started from.
ScanExhausted_restarts ==
    /\ pc = "loop"
    /\ i > Len(text)
    /\ IF \E k \in (start + 1)..Len(text) : text[k] = LBRACE
       THEN /\ pc' = "loop"
            /\ start' = start + str_find(SubSeq(text, start + 1, Len(text)), LBRACE)
            /\ i' = start + str_find(SubSeq(text, start + 1, Len(text)), LBRACE)
            /\ depth' = scan_init.depth
            /\ in_string' = scan_init.in_string
            /\ escape' = scan_init.escape
            /\ result' = result
       ELSE /\ pc' = "done"
            /\ result' = <<>>
            /\ UNCHANGED <<start, i, depth, in_string, escape>>
    /\ UNCHANGED <<inv, aggVars, concVars, text, decoded_part, origin>>

\* Line 180: the loop ran off the end of the text.
ScanExhausted ==
    /\ pc = "loop"
    /\ i > Len(text)
    /\ pc' = "done"
    /\ result' = <<>>
    /\ UNCHANGED <<inv, aggVars, concVars, text, start, i, depth, in_string, escape, decoded_part, origin>>

\* Lines 302-303, on the value returned: if json_part: json.loads(json_part).
ScanDecode ==
    /\ pc = "done"
    /\ pc' = "parsed"
    /\ decoded_part' = IF result = <<>> THEN NotParsed
                       ELSE LET decoded == json_loads(result)
                            IN  [ok |-> decoded.ok, val |-> decoded.val]
    /\ UNCHANGED <<inv, aggVars, concVars, text, start, i, depth, in_string, escape, result, origin>>

ScanNext == ScanBegin \/ ScanIter \/ ScanExhausted \/ ScanDecode

SpecScan == ScanInit /\ [][ScanNext]_vars

\* extract_first_json has returned.
ScanDone == pc \in {"done", "parsed"}

\* The stepwise run and the function agree.
ScanAgrees == ScanDone => result = extract_first_json(text)

-----------------------------------------------------------------------------
(* collect_all_texts called on a bounded set of response objects: the
   responses of the documented shape with up to two candidates, and responses
   with a missing or wrong-shaped field at each nesting level *)

\* The text fragments of the enumerated parts: plain, with leading white
\* space, and white space only.
FragTexts == {<<"a">>, <<SPACE, "b">>, <<SPACE>>}

Part(t) == JObj(<<Member(KEY_TEXT, JStr(t))>>)

\* A part of the documented shape: with a text, or without one.
WellParts == {Part(t) : t \in FragTexts} \cup {JObj(<<>>)}

PartLists(n) == UNION {[1..k -> WellParts] : k \in 0..n}

Content(parts) == JObj(<<Member(KEY_PARTS, parts)>>)

Candidate(content) == JObj(<<Member(KEY_CONTENT, content)>>)

CandidateOf(parts) == Candidate(Content(JArr(parts)))

Response(candidates) == JObj(<<Member(KEY_CANDIDATES, candidates)>>)

\* One candidate, or two of which the second has at most one part.
WellResponses ==
    {Response(JArr(<<>>))}
    \cup {Response(JArr(<<CandidateOf(ps)>>)) : ps \in PartLists(MaxParts)}
    \cup {Response(JArr(<<CandidateOf(ps), CandidateOf(qs)>>)) :
              ps \in PartLists(MaxParts), qs \in PartLists(1)}

\* Candidates with a missing or wrong-shaped field.
OddCandidates ==
    {JObj(<<>>),                                      \* no content
     Candidate(JNull),                                \* content: null
     Candidate(JStr(<<"a">>)),                        \* content not a mapping
     Candidate(JArr(<<>>)),
     Candidate(JObj(<<>>)),                           \* no parts
     Candidate(Content(JNull)),                       \* parts: null
     Candidate(Content(JNum(0))),
     Candidate(Content(JNum(5))),                     \* parts not iterable
     Candidate(Content(JStr(<<"a">>))),               \* parts a string
     CandidateOf(<<JObj(<<Member(KEY_TEXT, JNull)>>)>>),     \* text: null
     CandidateOf(<<JObj(<<Member(KEY_TEXT, JNum(7))>>)>>),   \* text not a string
     CandidateOf(<<JObj(<<Member(KEY_TEXT, JArr(<<JStr(<<"a">>)>>))>>)>>),
     CandidateOf(<<JNull>>),                          \* a part that is no mapping
     CandidateOf(<<JStr(<<"a">>)>>),
     JNull,                                           \* a candidate that is no mapping
     JStr(<<"a">>)}

GoodCandidate == CandidateOf(<<Part(<<"a">>)>>)

OddResponses ==
    {Response(JArr(<<c>>)) : c \in OddCandidates}
    \cup {Response(JArr(<<GoodCandidate, c>>)) : c \in OddCandidates}
    \cup {Response(JArr(<<c, GoodCandidate>>)) : c \in OddCandidates}
    \cup {JObj(<<>>),                                 \* no candidates
          Response(JNull),                            \* candidates: null
          Response(JNum(0)),
          Response(JNum(3)),                          \* candidates not iterable
          Response(JStr(<<"a">>)),
          Response(JObj(<<>>)),
          JArr(<<>>),                                 \* the response is no mapping
          JNull}

NewCollect(gemini_obj) ==
    [pc |-> "call", gemini_obj |-> gemini_obj, raised |-> "", value |-> <<>>]

CollectInit ==
    /\ inv = NewInvocation(JNull)
    /\ ScanIdle
    /\ ConcIdle
    /\ agg \in {NewCollect(o) : o \in WellResponses \cup OddResponses}

\* Lines 183-193: the call returns the aggregated text, or raises.
Collect ==
    /\ agg.pc = "call"
    /\ LET out == collect_all_texts(agg.gemini_obj)
       IN  agg' = [agg EXCEPT !.pc = IF out.raised = "" THEN "returned" ELSE "raised",
                              !.raised = out.raised,
                              !.value = out.value]
    /\ UNCHANGED <<inv, scanVars, concVars>>

CollectNext == Collect

SpecCollect == CollectInit /\ [][CollectNext]_vars

-----------------------------------------------------------------------------
(* Concurrent invocations of the handler, one per worker thread of the
   server.  All the handler's variables are locals of the invocation; what
   the invocations share is the module-level session, through which each
   call_gemini posts.  Between two calls an invocation touches its locals
   only, so its steps are taken whole and interleaved with the other
   invocations' steps in every order. *)

\* Invocations running at the same time.
MaxWorkers == 2

Workers == 1..MaxWorkers

\* Worker w's request: every worker asks about a company of its own.
ConcRequest(w) ==
    JObj(<<Member(KEY_NAME, JStr([k \in 1..w |-> "a"])),
           Member(KEY_BIZAREA, JStr(<<"i", "t">>))>>)

ConcResponses ==
    {FailedRequest,
     HttpResponse(200, TextResponse(<<T_WRAPPED>>)),
     HttpResponse(200, TextResponse(<<T_PROSE>>)),
     HttpResponse(200, TextResponse(<<T_TRUNCATED>>))}

\* Line 220: the post goes through the shared session.
session_post(s) == [s EXCEPT !.posts = @ + 1]

ConcInit ==
    /\ inv = NewInvocation(JNull)
    /\ ScanIdle
    /\ AggIdle
    /\ invs = [w \in Workers |-> NewInvocation(ConcRequest(w))]
    /\ session = [posts |-> 0]

ConcBegin(w) ==
    /\ invs[w].pc = "begin"
    /\ invs' = [invs EXCEPT ![w] = handler_begin(invs[w])]
    /\ UNCHANGED <<inv, scanVars, aggVars, session>>

ConcPrimaryCall(w) ==
    /\ invs[w].pc = "primary_call"
    /\ \E response \in ConcResponses :
          invs' = [invs EXCEPT ![w] = handler_primary_call(invs[w], response)]
    /\ session' = session_post(session)
    /\ UNCHANGED <<inv, scanVars, aggVars>>

ConcPrimaryBody(w) ==
    /\ invs[w].pc = "primary_body"
    /\ invs' = [invs EXCEPT ![w] = handler_primary(invs[w])]
    /\ UNCHANGED <<inv, scanVars, aggVars, session>>

\* The repair call sending a repair prompt kept in one module-level variable:
\* the prompt of whichever invocation wrote it last.
ConcRepairCall_shared_prompt(w) ==
    /\ invs[w].pc = "repair_call"
    /\ \E v \in Workers, response2 \in ConcResponses :
          /\ invs[v].pc \in {"repair_call", "repair_body", "done"}
          /\ Len(invs[v].trace) >= 3
          /\ invs' = [invs EXCEPT ![w] =
                        handler_repair_call(
                            [invs[w] EXCEPT !.repair_prompt = invs[v].repair_prompt],
                            response2)]
    /\ session' = session_post(session)
    /\ UNCHANGED <<inv, scanVars, aggVars>>

ConcRepairCall(w) ==
    /\ invs[w].pc = "repair_call"
    /\ \E response2 \in ConcResponses :
          invs' = [invs EXCEPT ![w] = handler_repair_call(invs[w], response2)]
    /\ session' = session_post(session)
    /\ UNCHANGED <<inv, scanVars, aggVars>>

ConcRepairBody(w) ==
    /\ invs[w].pc = "repair_body"
    /\ invs' = [invs EXCEPT ![w] = handler_repair(invs[w])]
    /\ UNCHANGED <<inv, scanVars, aggVars, session>>

ConcNext ==
    \E w \in Workers :
        \/ ConcBegin(w)
        \/ ConcPrimaryCall(w)
        \/ ConcPrimaryBody(w)
        \/ ConcRepairCall(w)
        \/ ConcRepairBody(w)

SpecConc == ConcInit /\ [][ConcNext]_vars

-----------------------------------------------------------------------------
(* The claims about the handler, checked under Spec *)

\* The call failed at transport level: requests raised, or the generator
\* answered with an error status.
TransportFailed(response) == response.exc # "" \/ response.status_code >= 400

\* The response's body was turned into text: decoded and aggregated.
HasText(response) ==
    /\ ~TransportFailed(response)
    /\ response.json_exc = ""
    /\ collect_all_texts(response.body).raised = ""

Aggregated(response) == collect_all_texts(response.body).value

\* t holds a first balanced object, and it decodes.
Decodable(t) ==
    LET span == extract_first_json(t) IN span # <<>> /\ json_loads(span).ok

DecodedValue(t) == json_loads(extract_first_json(t)).val

Calls == Len(inv.sent)

PrimaryReturned == Calls >= 1 /\ inv.pc # "primary_body"
RepairReturned == Calls = 2 /\ inv.pc = "done"

\* C1: an invocation calls the generator at most twice, first with the
\* primary prompt and then at most once with the repair prompt; every call is
\* one call_gemini of the trace.
C1_AtMostTwoCalls ==
    /\ Calls <= 2
    /\ Calls = Cardinality({k \in 1..Len(inv.trace) : inv.trace[k] = "call_gemini"})
    /\ \A k \in 1..Calls : inv.sent[k].template = IF k = 1 THEN "primary" ELSE "repair"

C1_Witness ==
    /\ inv.pc = "done"
    /\ Calls = 2
    /\ inv.outcome.kind = "TerminalFailure"

C3_PrimarySuccess ==
    (PrimaryReturned /\ HasText(inv.response) /\ Decodable(Aggregated(inv.response))) =>
        /\ inv.pc = "done"
        /\ inv.outcome = Success(DecodedValue(Aggregated(inv.response)))
        /\ inv.outcome.value.t = "obj"
        /\ Calls = 1

C3_Witness ==
    /\ inv.pc = "done"
    /\ inv.text_content = T_WRAPPED
    /\ inv.outcome.kind = "Success"
    /\ inv.outcome.value = JObj(<<Member(<<"x">>, JNum(1))>>)
    /\ Calls = 1

\* C4: when the primary response gave text without a decodable object, the
\* repair call is made, once, with a prompt that embeds that text in full and
\* the primary prompt's schema; and when the repair response's text holds a
\* first balanced object that decodes, the invocation returns Success with it.
C4_RepairSuccess ==
    (PrimaryReturned /\ HasText(inv.response) /\ ~Decodable(Aggregated(inv.response))) =>
        /\ inv.pc \in {"repair_call", "repair_body", "done"}
        /\ inv.repair_prompt.template = "repair"
        /\ inv.repair_prompt.embedded = Aggregated(inv.response)
        /\ inv.repair_prompt.schema = inv.prompt.schema
        /\ inv.pc # "repair_call" => Calls = 2 /\ inv.sent[2] = inv.repair_prompt
        /\ (RepairReturned /\ HasText(inv.response2)
                /\ Decodable(Aggregated(inv.response2))) =>
              inv.outcome = Success(DecodedValue(Aggregated(inv.response2)))

C4_Witness ==
    /\ inv.pc = "done"
    /\ Calls = 2
    /\ inv.text_content = T_LONG
    /\ inv.sent[2].embedded = T_LONG
    /\ inv.text_content2 = T_OBJECT
    /\ inv.outcome = Success(JObj(<<Member(<<"x">>, JNum(2))>>))

\* Both attempts gave text, and neither text holds a decodable object.
BothFailed ==
    /\ RepairReturned
    /\ HasText(inv.response) /\ ~Decodable(Aggregated(inv.response))
    /\ HasText(inv.response2) /\ ~Decodable(Aggregated(inv.response2))

\* The data of the log records of one kind.
RawLogged(what) ==
    {inv.log[k].data : k \in {j \in 1..Len(inv.log) : inv.log[j].what = what}}

\* C5 as stated: when both attempts fail to give a decodable object, the
\* invocation ends in TerminalFailure after two calls, and the failure carries
\* both attempts' raw texts: here, in the most generous reading, as the two raw
\* responses in full in the log records written with it.
C5_CarriesBothRawTexts ==
    BothFailed =>
        /\ inv.outcome.kind = "TerminalFailure"
        /\ Calls = 2
        /\ RawLogged("raw primary response") = {json_dumps(inv.response.body)}
        /\ RawLogged("raw repair response") = {json_dumps(inv.response2.body)}

\* C5, amended: when both attempts fail to give a decodable object, the
\* invocation ends after two calls with the generic TerminalFailure response
\* (500), which holds no text of either attempt; the two raw responses are
\* written to the log, each cut to its first LOG_RAW_LIMIT characters.
C5_TerminalFailure ==
    BothFailed =>
        /\ inv.outcome = TerminalFailure
        /\ inv.outcome.upstream = <<>> /\ inv.outcome.value = JNull
        /\ Calls = 2
        /\ RawLogged("raw primary response") =
               {str_prefix(json_dumps(inv.response.body), 1500)}
        /\ RawLogged("raw repair response") =
               {str_prefix(json_dumps(inv.response2.body), 1500)}

C5_Witness ==
    /\ BothFailed
    /\ inv.text_content = T_LONG
    /\ inv.text_content2 = T_PROSE
    /\ inv.outcome.kind = "TerminalFailure"

\* The repair response gave no decodable object: no text at all, no balanced
\* object in it, or one that does not decode.
RepairParseFailed ==
    /\ RepairReturned
    /\ HasText(inv.response2) /\ ~Decodable(Aggregated(inv.response2))

RepairTransportFailed == RepairReturned /\ TransportFailed(inv.response2)

\* C6 as stated: a transport error on the repair call ends in the same
\* terminal condition as a parse failure on it, which is TerminalFailure (500).
C6_SameTerminalCondition ==
    (RepairTransportFailed \/ RepairParseFailed) =>
        /\ inv.outcome.kind = "TerminalFailure"
        /\ inv.outcome.http = 500

\* C6, amended: both end the invocation without a further call and without
\* Success, but in different outcomes: a transport error on the repair call in
\* UpstreamTransportError (502; for an error status with the repair attempt's
\* own message and the upstream status), a parse failure in TerminalFailure
\* (500).
C6_DistinctTerminalConditions ==
    /\ RepairTransportFailed =>
          /\ inv.outcome.kind = "UpstreamTransportError"
          /\ inv.outcome.http = 502
          /\ inv.response2.exc = "" =>
                /\ inv.outcome.error = "Gemini API error (repair attempt)"
                /\ inv.outcome.status = inv.response2.status_code
    /\ RepairParseFailed =>
          /\ inv.outcome.kind = "TerminalFailure"
          /\ inv.outcome.http = 500
    /\ (RepairTransportFailed \/ RepairParseFailed) => Calls = 2

C6_Witness ==
    /\ RepairTransportFailed
    /\ inv.response2.status_code = 503
    /\ inv.outcome.http = 502
    /\ inv.outcome.error = "Gemini API error (repair attempt)"


-----------------------------------------------------------------------------
(* The claims about extract_first_json, checked under SpecScan *)

\* T is the text of a JSON object: from its '{' to its '}', and it decodes.
WellFormedObject(T) ==
    /\ Len(T) >= 2
    /\ T[1] = LBRACE
    /\ T[Len(T)] = RBRACE
    /\ json_loads(T).ok

\* The braces of prose p that stand outside its double-quoted strings, in
\* order (inside a quoted string a backslash escapes the next character); a
\* quote at the end marks a quoted string that p leaves open.
RECURSIVE OutsideBraces(_, _, _, _)
OutsideBraces(p, k, quoted, escaped) ==
    IF k > Len(p) THEN IF quoted THEN <<QUOTE>> ELSE <<>>
    ELSE IF quoted
         THEN IF escaped THEN OutsideBraces(p, k + 1, TRUE, FALSE)
              ELSE IF p[k] = BACKSLASH THEN OutsideBraces(p, k + 1, TRUE, TRUE)
              ELSE IF p[k] = QUOTE THEN OutsideBraces(p, k + 1, FALSE, FALSE)
              ELSE OutsideBraces(p, k + 1, TRUE, FALSE)
    ELSE IF p[k] = QUOTE THEN OutsideBraces(p, k + 1, TRUE, FALSE)
    ELSE IF p[k] \in {LBRACE, RBRACE}
         THEN <<p[k]>> \o OutsideBraces(p, k + 1, FALSE, FALSE)
    ELSE OutsideBraces(p, k + 1, FALSE, FALSE)

\* Every brace of the sequence is matched, and no quoted string is left open.
RECURSIVE Matched(_, _)
Matched(braces, open) ==
    IF braces = <<>> THEN open = 0
    ELSE IF Head(braces) = LBRACE THEN Matched(Tail(braces), open + 1)
    ELSE IF Head(braces) = RBRACE THEN open > 0 /\ Matched(Tail(braces), open - 1)
    ELSE FALSE

\* Prose whose unmatched braces, if any, all stand inside quoted strings.
UnmatchedOnlyInQuotes(p) == Matched(OutsideBraces(p, 1, FALSE, FALSE), 0)

Prefix(a) == SubSeq(text, 1, a)
Middle(a, b) == SubSeq(text, a + 1, b)
Suffix(b) == SubSeq(text, b + 1, Len(text))

\* C7 as stated: for every well-formed JSON object T, and every prefix and
\* suffix whose unmatched braces all stand inside quoted strings,
\* extract_first_json(prefix + T + suffix) returns T.  The prefix is read in
\* the code's favour: its quoted strings are closed, and outside them it holds
\* no brace at all.
C7_ObjectInProse ==
    ScanDone =>
        \A a \in 0..Len(text), b \in 1..Len(text) :
            (/\ a < b
             /\ WellFormedObject(Middle(a, b))
             /\ OutsideBraces(Prefix(a), 1, FALSE, FALSE) = <<>>
             /\ UnmatchedOnlyInQuotes(Suffix(b))) => result = Middle(a, b)

\* C7, amended: for every well-formed JSON object T, every prefix that holds
\* no '{' at all (quoted or not) and every suffix whatever,
\* extract_first_json(prefix + T + suffix) returns T.
C7_ObjectAfterBraceFreePrefix ==
    ScanDone =>
        \A a \in 0..Len(text), b \in 1..Len(text) :
            (/\ a < b
             /\ WellFormedObject(Middle(a, b))
             /\ str_find(Prefix(a), LBRACE) = 0) => result = Middle(a, b)

C7_Witness ==
    /\ ScanDone
    /\ text = <<"S", "u", "r", "e", ":", " ">> \o X_ESCAPED_QUOTE
                  \o <<" ", "{", "\"", "x", "\"", ":", "2", "}">>
    /\ result = X_ESCAPED_QUOTE

\* C8 as stated: for any JSON-serializable value v, decoding
\* extract_first_json(json.dumps(v)) succeeds and gives a value equal to v.
C8_RoundTripAnyValue ==
    (pc = "parsed" /\ origin.given) =>
        decoded_part.ok /\ value_eq(decoded_part.val, origin.value)

\* C8, amended: for any JSON object v (a dict with string keys, of strings,
\* integers, booleans, null, lists and such dicts), decoding
\* extract_first_json(json.dumps(v)) succeeds and gives a value equal to v.
C8_RoundTripObject ==
    (pc = "parsed" /\ origin.given /\ origin.value.t = "obj") =>
        /\ result = text
        /\ decoded_part.ok
        /\ value_eq(decoded_part.val, origin.value)

C8_Witness ==
    /\ pc = "parsed"
    /\ origin.given
    /\ origin.value = JObj(<<Member(<<"a">>,
                                    JObj(<<Member(<<QUOTE, LBRACE>>, JStr(<<RBRACE>>))>>))>>)
    /\ decoded_part.ok
    /\ decoded_part.val = origin.value

\* C9: a half-formed object is never returned.  When the scan from the first
\* '{' runs off the end of the text (the depth is still above 0), the result
\* is empty; a result that is not empty is the text from its first '{' to the
\* '}', outside any string, at which the depth came back to 0.
C9_NeverHalfFormed ==
    ScanDone =>
        /\ (start > 0 /\ i > Len(text)) => (result = <<>> /\ depth > 0)
        /\ result = <<>> => (start = 0 \/ i > Len(text))
        /\ result # <<>> =>
              /\ start > 0 /\ text[start] = LBRACE
              /\ \A j \in 1..(start - 1) : text[j] # LBRACE
              /\ i <= Len(text) /\ text[i] = RBRACE
              /\ result = SubSeq(text, start, i)
              /\ depth = 0 /\ ~in_string

C9_Witness ==
    /\ ScanDone
    /\ text = X_TRUNCATED
    /\ i = Len(text) + 1
    /\ depth = 2
    /\ result = <<>>

\* Some string of the value, a key or a value, holds a brace.
RECURSIVE HasBraceString(_)
HasBraceString(v) ==
    CASE v.t = "str" -> \E k \in 1..Len(v.s) : v.s[k] \in {LBRACE, RBRACE}
      [] v.t = "arr" -> \E k \in 1..Len(v.a) : HasBraceString(v.a[k])
      [] v.t = "obj" -> \E k \in 1..Len(v.m) :
                            \/ HasBraceString(JStr(v.m[k].k))
                            \/ HasBraceString(v.m[k].v)
      [] OTHER -> FALSE

\* C10: an iteration of the scan on a '{' or '}' inside a string literal
\* leaves the depth as it is and does not return; and a text that is one
\* well-formed object with braces in its strings is returned whole.
C10_BracesInStringsIgnored ==
    /\ [][(/\ pc = "loop"
           /\ i <= Len(text)
           /\ in_string
           /\ text[i] \in {LBRACE, RBRACE}) => (depth' = depth /\ pc' = "loop")]_vars
    /\ []((/\ ScanDone
           /\ WellFormedObject(text)
           /\ HasBraceString(json_loads(text).val)) => result = text)

C10_Witness ==
    /\ text = X_UNBALANCED_IN_STRING
    /\ pc = "loop"
    /\ in_string
    /\ text[i] = RBRACE
    /\ depth = 1

\* The number of consecutive backslashes of s that end at index k.
RECURSIVE BackslashRun(_, _)
BackslashRun(s, k) ==
    IF k >= 1 /\ s[k] = BACKSLASH THEN 1 + BackslashRun(s, k - 1) ELSE 0

\* Some string of the value, a key or a value, holds a double quote.
RECURSIVE HasQuoteString(_)
HasQuoteString(v) ==
    CASE v.t = "str" -> \E k \in 1..Len(v.s) : v.s[k] = QUOTE
      [] v.t = "arr" -> \E k \in 1..Len(v.a) : HasQuoteString(v.a[k])
      [] v.t = "obj" -> \E k \in 1..Len(v.m) :
                            \/ HasQuoteString(JStr(v.m[k].k))
                            \/ HasQuoteString(v.m[k].v)
      [] OTHER -> FALSE

\* The scan is about to read text[i] inside a string literal.
ReadingInString == pc = "loop" /\ i <= Len(text) /\ in_string

\* C11: inside a string literal a backslash escapes exactly the one character
\* after it.  The character read inside a string is escaped exactly when an
\* odd number of backslashes stands right before it; a quote right after an
\* unescaped backslash leaves the scan inside the string, a quote that is not
\* escaped (also one right after a backslash-backslash) ends the string; the
\* character after an escaped one is read unescaped; and a text that is one
\* well-formed object with quotes in its strings is returned whole.
C11_BackslashEscapesOne ==
    /\ [](ReadingInString => (escape <=> BackslashRun(text, i - 1) % 2 = 1))
    /\ [][(ReadingInString /\ text[i] = QUOTE /\ pc' = "loop") =>
              (in_string' <=> BackslashRun(text, i - 1) % 2 = 1)]_vars
    /\ [][(ReadingInString /\ escape) => (in_string' /\ ~escape')]_vars
    /\ []((/\ ScanDone
           /\ WellFormedObject(text)
           /\ HasQuoteString(json_loads(text).val)) => result = text)

C11_Witness ==
    /\ text = X_ESCAPED_QUOTE
    /\ ReadingInString
    /\ escape
    /\ text[i] = QUOTE
    /\ text[i - 1] = BACKSLASH

\* C12: for every text without a '{' character, the empty text included,
\* extract_first_json returns the empty string (and never enters its loop).
C12_NoBraceGivesEmpty ==
    (ScanDone /\ \A k \in 1..Len(text) : text[k] # LBRACE) =>
        /\ result = <<>>
        /\ start = 0
        /\ i = 0

C12_Witness ==
    /\ ScanDone
    /\ text = <<RBRACE, QUOTE, "a">>
    /\ result = <<>>

-----------------------------------------------------------------------------
(* The claims about collect_all_texts, checked under SpecCollect *)

\* v is a mapping without the key, or with the key set to null.
Lacks(v, key) == ~dict_has(v.m, key) \/ dict_at(v.m, key) = JNull

\* The value of a key that v holds.
Field(v, key) == dict_at(v.m, key)

\* v is a list whose items are all mappings.
ListOfMappings(v) == v.t = "arr" /\ \A k \in 1..Len(v.a) : v.a[k].t = "obj"

\* A content of the documented shape: a mapping without parts, or whose parts
\* are a list of parts (each a mapping, with or without a text of any type).
WellContent(c) ==
    /\ c.t = "obj"
    /\ Lacks(c, KEY_PARTS) \/ ListOfMappings(Field(c, KEY_PARTS))

\* A response whose fields are missing or wrong-shaped in the listed ways
\* only: no candidates key or candidates null; a candidate without content,
\* with content null or content that is no mapping; a content without parts;
\* a part without text or with a text that is no string.
ListedShape(o) ==
    /\ o.t = "obj"
    /\ \/ Lacks(o, KEY_CANDIDATES)
       \/ /\ ListOfMappings(Field(o, KEY_CANDIDATES))
          /\ \A k \in 1..Len(Field(o, KEY_CANDIDATES).a) :
                LET cand == Field(o, KEY_CANDIDATES).a[k]
                IN  \/ ~dict_has(cand.m, KEY_CONTENT)
                    \/ Field(cand, KEY_CONTENT).t # "obj"
                    \/ WellContent(Field(cand, KEY_CONTENT))

\* A response of the documented shape: as ListedShape, and every content
\* that is present is a mapping.
WellShaped(o) ==
    /\ o.t = "obj"
    /\ \/ Lacks(o, KEY_CANDIDATES)
       \/ /\ ListOfMappings(Field(o, KEY_CANDIDATES))
          /\ \A k \in 1..Len(Field(o, KEY_CANDIDATES).a) :
                LET cand == Field(o, KEY_CANDIDATES).a[k]
                IN  \/ ~dict_has(cand.m, KEY_CONTENT)
                    \/ WellContent(Field(cand, KEY_CONTENT))

CollectDone == agg.pc \in {"returned", "raised"}

\* C13: collect_all_texts returns a string and never raises, for every
\* response object with missing or wrong-shaped fields at any nesting level
\* (no candidates key, candidates null, a candidate without content, content
\* null or not a mapping, no parts key, a part without text, text not a
\* string).
C13_NeverRaises ==
    (CollectDone /\ ListedShape(agg.gemini_obj)) => agg.pc = "returned"

\* The items of the list that mapping v holds under key, none if v lacks it.
Items(v, key) == IF Lacks(v, key) THEN <<>> ELSE Field(v, key).a

\* The parts of a candidate of the documented shape.
PartsOfCandidate(cand) ==
    IF ~dict_has(cand.m, KEY_CONTENT) THEN <<>>
    ELSE Items(Field(cand, KEY_CONTENT), KEY_PARTS)

\* A part's text fragment counts: it is a string with a character that is no
\* white space.
CountedPart(p) ==
    /\ dict_has(p.m, KEY_TEXT)
    /\ Field(p, KEY_TEXT).t = "str"
    /\ \E k \in 1..Len(Field(p, KEY_TEXT).s) : ~IsPySpace(Field(p, KEY_TEXT).s[k])

\* The counted fragments of the parts, in order, each followed by a newline.
RECURSIVE FragmentLines(_)
FragmentLines(parts) ==
    IF parts = <<>> THEN <<>>
    ELSE (IF CountedPart(Head(parts))
          THEN Field(Head(parts), KEY_TEXT).s \o <<NEWLINE>>
          ELSE <<>>) \o FragmentLines(Tail(parts))

\* The same for the candidates in order, each candidate's parts in order.
RECURSIVE CandidateLines(_)
CandidateLines(candidates) ==
    IF candidates = <<>> THEN <<>>
    ELSE FragmentLines(PartsOfCandidate(Head(candidates)))
             \o CandidateLines(Tail(candidates))

\* t is s without its leading and trailing white space.
Trimmed(s, t) ==
    \E lo \in 0..Len(s) :
        /\ lo + Len(t) <= Len(s)
        /\ t = SubSeq(s, lo + 1, lo + Len(t))
        /\ \A k \in 1..lo : IsPySpace(s[k])
        /\ \A k \in (lo + Len(t) + 1)..Len(s) : IsPySpace(s[k])
        /\ t # <<>> => (~IsPySpace(t[1]) /\ ~IsPySpace(t[Len(t)]))

\* C14: for a response of the documented shape the call returns, and the
\* text returned is the text fragments of all parts of all candidates, in
\* candidate-then-part order, without the empty and the white-space-only
\* ones, joined by one newline, and without leading and trailing white
\* space; it is the empty string when there is no candidate, no part or no
\* counted fragment.
C14_AggregatedText ==
    (CollectDone /\ WellShaped(agg.gemini_obj)) =>
        /\ agg.pc = "returned"
        /\ Trimmed(CandidateLines(Items(agg.gemini_obj, KEY_CANDIDATES)), agg.value)

\* Two candidates; fragments with white space of their own, a white-space-only
\* fragment and a part without text between them.
C14_Witness ==
    /\ agg.pc = "returned"
    /\ agg.gemini_obj =
           Response(JArr(<<CandidateOf(<<Part(<<"a">>), Part(<<SPACE>>)>>),
                           CandidateOf(<<Part(<<SPACE, "b">>)>>)>>))
    /\ agg.value = <<"a", NEWLINE, SPACE, "b">>

-----------------------------------------------------------------------------
(* The claim about concurrent invocations, checked under SpecConc *)

\* r is a state of the invocation that runs alone on r's own request and is
\* given r's own responses: its state at the start, or after one of its steps.
RunsAsAlone(r) ==
    LET start_ == NewInvocation(r.request_json)
        begun == handler_begin(start_)
        called == handler_primary_call(begun, r.response)
        read == handler_primary(called)
        repair_called == handler_repair_call(read, r.response2)
        repair_read == handler_repair(repair_called)
    IN  \/ r = start_
        \/ r = begun
        \/ begun.pc = "primary_call" /\ r = called
        \/ called.pc = "primary_body" /\ r = read
        \/ read.pc = "repair_call" /\ r = repair_called
        \/ repair_called.pc = "repair_body" /\ r = repair_read

\* C15: under every interleaving of the concurrent invocations, each
\* invocation's locals (aggregated texts, repair prompt, prompts sent, log,
\* outcome) are those of the invocation run alone on its own request and its
\* own generator responses; and a step changes the state of one invocation
\* only.
C15_InvocationsIsolated ==
    /\ [](\A w \in Workers : RunsAsAlone(invs[w]))
    /\ [][\A v, w \in Workers :
              (invs'[v] # invs[v] /\ invs'[w] # invs[w]) => v = w]_vars

\* Both invocations have asked for a repair, of different texts; the first
\* has got its repaired object while the second is still waiting.
C15_Witness ==
    /\ invs[1].outcome.kind = "Success"
    /\ Len(invs[1].sent) = 2
    /\ invs[2].pc = "repair_body"
    /\ invs[1].text_content # invs[2].text_content
    /\ invs[1].request_json # invs[2].request_json
    /\ session.posts = 4

-----------------------------------------------------------------------------
(* More claims about the handler, checked under Spec *)

\* No balanced object in the text, the empty text included.
ExtractionFailure(t) == extract_first_json(t) = <<>>

\* A balanced object was found and it is no valid JSON.
DecodeFailure(t) ==
    LET span == extract_first_json(t) IN span # <<>> /\ ~json_loads(span).ok

ParseFailure(t) == ExtractionFailure(t) \/ DecodeFailure(t)

\* The primary body was read, and its text failed to parse.
PrimaryParseFailed ==
    /\ PrimaryReturned
    /\ HasText(inv.response)
    /\ ParseFailure(Aggregated(inv.response))

\* C16: an extraction failure and a decode failure follow one transition
\* rule.  After either in the primary attempt the invocation stands before the
\* repair call with one call made and no outcome, its next step is the repair
\* call, and afterwards two calls were made; after either in the repair
\* attempt the outcome is TerminalFailure; neither failure leaves the handler
\* as an exception (an internal error after a primary parse failure can only
\* come from a repair response that gave no text).
C16_SameTransitionRule ==
    /\ [](PrimaryParseFailed =>
             /\ inv.pc \in {"repair_call", "repair_body", "done"}
             /\ inv.pc = "repair_call" => (Calls = 1 /\ inv.outcome = NoOutcome)
             /\ inv.pc # "repair_call" => Calls = 2
             /\ inv.outcome.kind # "Unhandled"
             /\ inv.outcome.kind = "InternalError" => ~HasText(inv.response2))
    /\ [][inv.pc = "repair_call" =>
             (Len(inv'.sent) = 2 /\ inv'.sent[2] = inv.repair_prompt)]_vars
    /\ []((PrimaryParseFailed /\ RepairReturned /\ HasText(inv.response2)
              /\ ParseFailure(Aggregated(inv.response2))) =>
             (inv.outcome = TerminalFailure /\ Calls = 2))

\* A decode failure in the primary attempt, an extraction failure in the
\* repair attempt.
C16_Witness ==
    /\ inv.pc = "done"
    /\ DecodeFailure(inv.text_content) /\ inv.text_content = T_NOTJSON
    /\ ExtractionFailure(inv.text_content2) /\ inv.text_content2 = T_PROSE
    /\ Calls = 2
    /\ inv.outcome = TerminalFailure

\* C17: every Success carries the decoded value of the span extracted from
\* the aggregated text of the attempt that just ran, and of that text alone:
\* after one call the primary response's text, after two calls the repair
\* response's text (the primary text having failed to parse); the value is an
\* object, never text in which no decodable balanced object was found.
C17_SuccessIsCurrentAttempt ==
    inv.outcome.kind = "Success" =>
        /\ inv.pc = "done"
        /\ inv.outcome.value.t = "obj"
        /\ Calls = 1 =>
              /\ HasText(inv.response)
              /\ inv.text_content = Aggregated(inv.response)
              /\ Decodable(inv.text_content)
              /\ inv.outcome.value = DecodedValue(inv.text_content)
        /\ Calls # 1 =>
              /\ Calls = 2
              /\ ParseFailure(inv.text_content)
              /\ HasText(inv.response2)
              /\ inv.text_content2 = Aggregated(inv.response2)
              /\ Decodable(inv.text_content2)
              /\ inv.outcome.value = DecodedValue(inv.text_content2)

\* The primary text opens two objects and closes none; the repair text holds
\* an object of its own.
C17_Witness ==
    /\ inv.outcome.kind = "Success"
    /\ Calls = 2
    /\ inv.text_content = T_TRUNCATED
    /\ inv.text_content2 = T_WRAPPED
    /\ inv.outcome.value = JObj(<<Member(<<"x">>, JNum(1))>>)

-----------------------------------------------------------------------------
(* More claims about extract_first_json, checked under SpecScan *)

\* The index of the first '{' of the text, 0 when it has none.
FirstBrace == IF \E k \in 1..Len(text) : text[k] = LBRACE
              THEN CHOOSE k \in 1..Len(text) :
                       text[k] = LBRACE /\ \A j \in 1..(k - 1) : text[j] # LBRACE
              ELSE 0

\* The object that begins at the first '{' closes: some stretch of the text
\* from there on has all its braces outside strings matched and no string
\* left open.
FirstObjectCloses ==
    /\ FirstBrace > 0
    /\ \E k \in FirstBrace..Len(text) :
          UnmatchedOnlyInQuotes(SubSeq(text, FirstBrace, k))

\* A complete, decodable object stands in the text after the first '{'.
LaterObject ==
    \E a \in 1..Len(text), b \in 1..Len(text) :
        a >= FirstBrace /\ a < b /\ WellFormedObject(Middle(a, b))

\* C18: the scan starts at the first '{' of the text and at no other: while
\* it runs and after it, start is the index of the first '{' and the loop
\* index never falls back; a result that is not empty begins there; and when
\* the object that begins there does not close, the result is empty, also
\* when a complete object stands later in the text.
C18_NeverRestarts ==
    /\ [](pc \in {"loop", "done", "parsed"} =>
             /\ start = FirstBrace
             /\ result # <<>> => result = SubSeq(text, FirstBrace,
                                                FirstBrace + Len(result) - 1))
    /\ [][pc = "loop" => (start' = start /\ i' >= i)]_vars
    /\ []((ScanDone /\ FirstBrace > 0 /\ ~FirstObjectCloses) => result = <<>>)

\* An unterminated string after the first '{', and a complete object later.
C18_Witness ==
    /\ ScanDone
    /\ text = X_UNTERMINATED_STRING \o <<" ", "{", "\"", "x", "\"", ":", "2", "}">>
    /\ ~FirstObjectCloses
    /\ LaterObject
    /\ result = <<>>

-----------------------------------------------------------------------------
(* The claim about errors in the primary body, checked under Spec *)

\* The exception that reading the response's body raises, "" if none:
\* response.json() on a body that is no JSON, or collect_all_texts on a
\* response object of the wrong shape.
BodyException(response) ==
    IF response.json_exc # "" THEN response.json_exc
    ELSE collect_all_texts(response.body).raised

\* The primary call answered with status 200 and its body was read, which
\* raised.
PrimaryBodyRaised ==
    /\ PrimaryReturned
    /\ inv.response.exc = ""
    /\ inv.response.status_code = 200
    /\ BodyException(inv.response) # ""

\* C19 as stated: when the primary call returns a success status and reading
\* its body raises anything but a JSON decode error of the extracted span, the
\* invocation ends with an internal-error outcome and exactly one generator
\* call.
C19_BodyErrorIsInternal ==
    PrimaryBodyRaised =>
        /\ inv.pc = "done"
        /\ inv.outcome.kind = "InternalError"
        /\ Calls = 1

\* C19, amended: in that case the invocation ends after exactly one generator
\* call, without a repair call; its outcome is the internal error (500),
\* except when the exception is a requests.RequestException, as the one
\* response.json() raises on a body that is no JSON: then the outcome is the
\* upstream request error (502).
C19_BodyErrorEndsInvocation ==
    PrimaryBodyRaised =>
        /\ inv.pc = "done"
        /\ Calls = 1
        /\ inv.repair_prompt = NewInvocation(inv.request_json).repair_prompt
        /\ IF BodyException(inv.response) = "RequestException"
           THEN inv.outcome = UpstreamRequestError("RequestException")
           ELSE inv.outcome = InternalError(BodyException(inv.response))

\* A response object whose candidate has content null.
C19_Witness ==
    /\ inv.pc = "done"
    /\ inv.response = HttpResponse(200, Response(JArr(<<Candidate(JNull)>>)))
    /\ inv.outcome = InternalError("AttributeError")
    /\ Calls = 1

-----------------------------------------------------------------------------
(* The loop invariant of extract_first_json, checked under SpecScan *)

\* C20: in the scan loop, once the first character (the opening '{') has
\* been processed, the depth is at least 1 at the start of every later
\* iteration (and when the loop runs off the end); the depth is never
\* negative; and the escape flag is set only while in_string is.
C20_LoopInvariant ==
    /\ (pc = "loop" /\ i > start) => depth >= 1
    /\ (pc = "loop" /\ i = start) => (depth = 0 /\ ~in_string /\ ~escape)
    /\ depth >= 0
    /\ escape => in_string

\* Inside a string of the object, right after an escaping backslash.
C20_Witness ==
    /\ pc = "loop"
    /\ text = X_ESCAPED_QUOTE
    /\ i > start
    /\ depth = 1
    /\ in_string
    /\ escape

=============================================================================
